---- MODULE Spec2Model ----
(***************************************************************************)
(* The incremental terminal display engine MqttDisplay: its topic table,   *)
(* the strings it owns in allocator memory, the control sequences it       *)
(* writes, and the session around it (setupTerminal, updateTopic,          *)
(* redrawAll, restoreTerminal, deinit).                                    *)
(*                                                                         *)
(* Strings are sequences of one-character strings.  Allocator memory is a  *)
(* finite array of cells; a slice held by the table is the address of its  *)
(* cell.  A cell that was freed has no defined contents: reading it is     *)
(* undefined behaviour, modelled as a choice of what the read returns, and *)
(* a call that meets undefined behaviour either goes on or kills the       *)
(* process.                                                                *)
(***************************************************************************)
EXTENDS Integers, Sequences, FiniteSets, TLC

\* ---------------------------------------------------------------- bounds

\* Number of calls that may return an error in one session.
MaxFaults == 1

\* Topics and payloads delivered to the engine.  A character is one cell of
\* the screen; "°" is two bytes of the UTF-8 text the strings are.
Keys == { <<"a", "/", "b">>, <<"°">> }

Values == { <<>>, <<"2", "2">> }

\* ------------------------------------------------------------- variables

VARIABLES
    topics,     \* the StringHashMap, as the sequence of its entries in insertion order
    next_row,   \* MqttDisplay.next_row
    heap,       \* allocator memory: address -> cell
    term,       \* terminal mode: alternate buffer entered, cursor hidden
    out,        \* what the last call wrote to the writer, in order
    phase,      \* the session: "created", "running" (after setupTerminal), "exited", "aborted"
    result,     \* the last call: operation, arguments, path taken and error returned
    faults,     \* number of calls that returned an error so far (capped at MaxFaults)
    ub,         \* some call read or freed a cell that was already freed
    seen,       \* history: the distinct topics passed to updateTopic, in first-call order
    delivered,  \* history: the value of the last updateTopic call of each topic
    first_row,  \* history: the row each topic's line was first drawn at, 0 if never
    screen,     \* the terminal: the cells of the alternate buffer and the cursor
    go,         \* the myg command: its arguments, where main is, the MQTT client
    calls       \* updateTopic calls made without serialisation: each caller's position

vars == << topics, next_row, heap, term, out, phase, result, faults, ub,
           seen, delivered, first_row, screen, go, calls >>

\* What a session of the display alone leaves untouched.
others == << go, calls >>

\* The display's variables.
display == << topics, next_row, heap, term, out, phase, result, faults, ub,
              seen, delivered, first_row, screen >>

\* ----------------------------------------------------------------- basics

\* Cells of allocator memory: enough for every entry the table can come to
\* hold, so that an allocation fails only when a failure is injected.
MaxAddr == 2 * (Cardinality(Keys) + MaxFaults)

Addr == 1 .. MaxAddr

Min(S) == CHOOSE x \in S : \A y \in S : x <= y

Max(S) == CHOOSE x \in S : \A y \in S : x >= y

Range(s) == { s[i] : i \in DOMAIN s }

\* Bytes of the UTF-8 encoding of a character.
Utf8Len(c) == IF c \in { "°" } THEN 2 ELSE 1

\* s.len of a slice of bytes: the length of the string in bytes.
RECURSIVE ByteLen(_)
ByteLen(s) == IF s = <<>> THEN 0 ELSE Utf8Len(Head(s)) + ByteLen(Tail(s))

\* What a read of freed memory prints.
Garbage == << "?" >>

\* ------------------------------------------------------ allocator memory

FreeCell == [live |-> FALSE, data |-> <<>>]

\* Addresses the table holds, as a key or as a value.
Referenced(t) == { t[i].key : i \in DOMAIN t } \cup { t[i].value : i \in DOMAIN t }

\* Where allocator.dupe places a copy: a free cell that no slice in refs
\* points to (the allocator does not hand out again a cell a dangling slice
\* of the table still points to).  Such cells are interchangeable, so the
\* lowest stands for them; the set is empty when memory is exhausted.
DupeTargets(h, refs) ==
    LET plain == { a \in Addr : ~h[a].live /\ a \notin refs }
    IN  IF plain = {} THEN {} ELSE { Min(plain) }

\* Mutant of Dupe: the cell is allocated but the bytes are not copied.
Dupe_AllocOnly(h, a, s) == [h EXCEPT ![a] = [live |-> TRUE, data |-> Garbage]]

\* allocator.dupe(u8, s) placed at address a.
Dupe(h, a, s) == [h EXCEPT ![a] = [live |-> TRUE, data |-> s]]

\* allocator.free(p).
Free(h, p) == [h EXCEPT ![p] = FreeCell]

\* The bytes a print of the slice at address p writes.
ReadVal(h, p) == IF h[p].live THEN h[p].data ELSE Garbage

LiveCells(h) == { a \in Addr : h[a].live }

\* ------------------------------------------------------ terminal output

Cmd(t, r, c, s) == [t |-> t, row |-> r, col |-> c, s |-> s]

\* ESC[{row};{col}H
CUP(r, c) == Cmd("CUP", r, c, <<>>)

\* ESC[K
EL == Cmd("EL", 0, 0, <<>>)

\* ESC[2J
ED == Cmd("ED", 0, 0, <<>>)

\* ESC[?1049h and ESC[?1049l
AltOn == Cmd("AltOn", 0, 0, <<>>)

AltOff == Cmd("AltOff", 0, 0, <<>>)

\* ESC[?25l and ESC[?25h
CurHide == Cmd("CurHide", 0, 0, <<>>)

CurShow == Cmd("CurShow", 0, 0, <<>>)

Text(s) == Cmd("Text", 0, 0, s)

\* A call's writes when the wf-th write fails (wf = 0: none fails): the
\* writes before it reached the terminal, `try` returns at the failing one.
Written(cmds, wf) == IF wf = 0 \/ wf > Len(cmds) THEN cmds ELSE SubSeq(cmds, 1, wf - 1)

IoFailed(cmds, wf) == wf # 0 /\ wf <= Len(cmds)

\* The terminal mode after the writes cmds.
RECURSIVE ApplyMode(_, _)
ApplyMode(m, cmds) ==
    IF cmds = <<>> THEN m
    ELSE LET c  == Head(cmds)
             m2 == CASE c.t = "AltOn"   -> [m EXCEPT !.alt = TRUE]
                     [] c.t = "AltOff"  -> [m EXCEPT !.alt = FALSE]
                     [] c.t = "CurHide" -> [m EXCEPT !.hidden = TRUE]
                     [] c.t = "CurShow" -> [m EXCEPT !.hidden = FALSE]
                     [] OTHER           -> m
         IN  ApplyMode(m2, Tail(cmds))

\* Rows of the terminal the model keeps: one for every row updateTopic can
\* come to assign.
ScreenRows == Cardinality(Keys) + MaxFaults

\* A line of the screen is the sequence of its cells up to the last one
\* that shows a character; the cells after it are blank, and a space is a
\* blank cell.
BlankCells == [r \in 1 .. ScreenRows |-> <<>>]

HomeScreen == [known |-> TRUE, cells |-> BlankCells, row |-> 1, col |-> 1]

\* What the terminal shows is not known any more: a write failed, so that
\* any part of its bytes may have reached the terminal, or a call printed
\* freed memory.
UnknownScreen == [known |-> FALSE, cells |-> BlankCells, row |-> 1, col |-> 1]

RECURSIVE Trim(_)
Trim(line) ==
    IF line # <<>> /\ line[Len(line)] = " " THEN Trim(SubSeq(line, 1, Len(line) - 1)) ELSE line

PadTo(line, n) ==
    IF Len(line) >= n THEN line ELSE line \o [i \in 1 .. (n - Len(line)) |-> " "]

\* The line after the characters s are printed from column col on.
PutText(line, col, s) ==
    LET base == PadTo(line, col - 1)
        n    == IF Len(base) >= col - 1 + Len(s) THEN Len(base) ELSE col - 1 + Len(s)
    IN  Trim([i \in 1 .. n |-> IF i >= col /\ i < col + Len(s) THEN s[i - col + 1] ELSE base[i]])

\* The line after ESC[K with the cursor in column col.
EraseLine(line, col) == IF Len(line) >= col THEN Trim(SubSeq(line, 1, col - 1)) ELSE line

\* The terminal after one write.
Apply(sc, c) ==
    CASE c.t = "CUP"   -> [sc EXCEPT !.row = c.row, !.col = c.col]
      [] c.t = "ED"    -> [sc EXCEPT !.cells = BlankCells]
      [] c.t = "AltOn" -> [sc EXCEPT !.cells = BlankCells]
      [] c.t = "AltOff" -> [sc EXCEPT !.cells = BlankCells]
      [] c.t = "EL"    -> [sc EXCEPT !.cells[sc.row] = EraseLine(@, sc.col)]
      [] c.t = "Text"  -> [sc EXCEPT !.cells[sc.row] = PutText(@, sc.col, c.s),
                                     !.col = @ + Len(c.s)]
      [] OTHER         -> sc

\* The terminal after the writes cmds.
RECURSIVE Render(_, _)
Render(sc, cmds) == IF cmds = <<>> THEN sc ELSE Render(Apply(sc, Head(cmds)), Tail(cmds))

\* The terminal after a call that wrote cmds; failed tells that one of its
\* writes failed or printed freed memory.
Show(sc, cmds, failed) == IF failed \/ ~sc.known THEN UnknownScreen ELSE Render(sc, cmds)

\* ------------------------------------------------------- the topic table

\* next_row of a new display.
InitNextRow == 1

\* Mutant of ValueColumn: room for the colon only.
ValueColumn_NoSpace(topic) == ByteLen(topic) + 2

\* Mutant of ValueColumn: the column of the colon.
ValueColumn_OnColon(topic) == ByteLen(topic) + 1

\* Column where the value starts: after the topic name and ": ".
ValueColumn(topic) == ByteLen(topic) + 3

\* The entry put for a new topic: the key slice, the hash the map files it
\* under, and the TopicInfo.
NewTopicInfo(ka, topic, va, nr) ==
    [key |-> ka, hash |-> topic, row |-> nr, value_column |-> ValueColumn(topic),
     value |-> va]

\* Mutant of SetValue: the column of the value follows the new value.
SetValue_Realigns(info, a) == [info EXCEPT !.value = a, !.value_column = @ + 1]

\* Mutant of SetValue: the entry is also moved to the row below.
SetValue_MovesRow(info, a) == [info EXCEPT !.value = a, !.row = @ + 1]

\* info.value = <the new copy>
SetValue(info, a) == [info EXCEPT !.value = a]

\* Mutant of BumpRow: a row is left out.
BumpRow_Skips(nr) == nr + 2

\* Mutant of BumpRow: next_row is not advanced.
BumpRow_Stuck(nr) == nr

\* self.next_row += 1
BumpRow(nr) == nr + 1

\* Entries filed under topic's hash whose key cell is freed: comparing the
\* key reads freed memory.
Indet(h, t, topic) == { i \in DOMAIN t : t[i].hash = topic /\ ~h[t[i].key].live }

\* Mutant of Lookup: keys compared by address, never equal to the argument.
Lookup_ByAddress(h, t, topic, R) == 0

\* topics.getPtr / topics.get: the index of the first entry filed under the
\* topic's hash whose key bytes equal the topic, 0 for null.  R is what this
\* call's reads of freed key cells return: the entries in R still read as
\* their old key.  Distinct topics are taken to hash to distinct slots.
Lookup(h, t, topic, R) ==
    LET hits == { i \in DOMAIN t :
                    /\ t[i].hash = topic
                    /\ IF h[t[i].key].live THEN h[t[i].key].data = topic ELSE i \in R }
    IN  IF hits = {} THEN 0 ELSE Min(hits)

\* topics.put: getOrPut found entry j (whose key slice it keeps) or, j = 0,
\* adds the entry.
Put(t, j, e) == IF j = 0 THEN Append(t, e) ELSE [t EXCEPT ![j] = [e EXCEPT !.key = t[j].key]]

\* topics.count()
TopicCount(t) == Len(t)

\* Mutant of ErrdeferKey: the copy of the topic is not freed.
ErrdeferKey_Missing(h, ka) == h

\* errdefer self.allocator.free(topic_duped)
ErrdeferKey(h, ka) == Free(h, ka)

\* errdefer self.allocator.free(value_duped)
ErrdeferValue(h, va) == Free(h, va)

\* Mutant of DrawFullTopic: the line is written where the cursor is.
DrawFullTopic_AtCursor(h, t, topic, R) ==
    LET j == Lookup(h, t, topic, R)
    IN  IF j = 0 THEN <<>>
        ELSE << Text(topic \o <<":", " ">>), Text(ReadVal(h, t[j].value)) >>

\* drawFullTopic: cursor to the start of the row, the topic and ": ", the value.
DrawFullTopic(h, t, topic, R) ==
    LET j == Lookup(h, t, topic, R)
    IN  IF j = 0 THEN <<>>
        ELSE << CUP(t[j].row, 1), Text(topic \o <<":", " ">>), Text(ReadVal(h, t[j].value)) >>

\* Mutant of RedrawTopicValue: the whole line is drawn again.
RedrawTopicValue_FullLine(h, t, topic, R) ==
    LET j == Lookup(h, t, topic, R)
    IN  IF j = 0 THEN <<>>
        ELSE << CUP(t[j].row, 1), Text(topic \o <<":", " ">>), Text(ReadVal(h, t[j].value)) >>

\* redrawTopicValue: cursor to the start of the value, clear to end of line, the value.
RedrawTopicValue(h, t, topic, R) ==
    LET j == Lookup(h, t, topic, R)
    IN  IF j = 0 THEN <<>>
        ELSE << CUP(t[j].row, t[j].value_column), EL, Text(ReadVal(h, t[j].value)) >>

\* ------------------------------------------------------------ the state

Result(op, key, value, path, err, at, idx) ==
    [op |-> op, key |-> key, value |-> value, path |-> path, err |-> err, at |-> at,
     idx |-> idx]

\* No myg command is running.
NoProgram == [pc |-> "none"]

\* No updateTopic call is in progress.
NoCalls == [mode |-> "none", thr |-> <<>>]

\* MqttDisplay.init, in a process whose terminal is in its normal mode.
DisplayInit ==
    /\ topics = <<>>
    /\ next_row = InitNextRow
    /\ heap = [a \in Addr |-> FreeCell]
    /\ term = [alt |-> FALSE, hidden |-> FALSE]
    /\ out = <<>>
    /\ phase = "created"
    /\ result = Result("init", <<>>, <<>>, "", "none", "", 0)
    /\ faults = 0
    /\ ub = FALSE
    /\ seen = <<>>
    /\ delivered = [k \in Keys |-> <<>>]
    /\ first_row = [k \in Keys |-> 0]
    /\ screen = HomeScreen

Init ==
    /\ DisplayInit
    /\ go = NoProgram
    /\ calls = NoCalls

\* The process is killed (a signal, a safety panic): nothing deferred runs.
\* Its memory is gone with it, so the display's variables are left at their
\* initial values; the terminal outlives the process and keeps its mode.
Killed(m) ==
    /\ phase' = "aborted"
    /\ term' = m
    /\ topics' = <<>>
    /\ next_row' = InitNextRow
    /\ heap' = [a \in Addr |-> FreeCell]
    /\ out' = <<>>
    /\ result' = Result("killed", <<>>, <<>>, "", "none", "", 0)
    /\ faults' = 0
    /\ ub' = FALSE
    /\ seen' = <<>>
    /\ delivered' = [k \in Keys |-> <<>>]
    /\ first_row' = [k \in Keys |-> 0]
    /\ screen' = IF m.alt THEN screen ELSE HomeScreen
    /\ UNCHANGED others

AllocFaults == { "none", "dupe_key", "dupe_value", "put" }

\* A call may be made to fail only while the session's fault budget lasts,
\* and fails at one place.
FaultAllowed(af, wf) ==
    /\ (af # "none" \/ wf # 0) => faults < MaxFaults
    /\ af # "none" => wf = 0

CountFault(err) == IF err # "none" /\ faults < MaxFaults THEN faults + 1 ELSE faults

\* ---------------------------------------------------------- updateTopic

\* How an updateTopic(topic, value) call ends: the engine's state after it
\* and what it returned.
\* A call that met undefined behaviour (ubNow) goes on or is killed; one
\* that unwrapped a null lookup (crash) is killed.
UpdateDone(topic, value, path, err, at, idx, t2, nr2, h2, o2, ubNow, crash) ==
  \/ (crash \/ ubNow) /\ Killed(term)
  \/
    /\ ~crash
    /\ topics' = t2
    /\ next_row' = nr2
    /\ heap' = h2
    /\ out' = o2
    /\ result' = Result("update", topic, value, path, err, at, idx)
    /\ faults' = CountFault(err)
    /\ ub' = (ub \/ ubNow)
    /\ seen' = IF topic \in Range(seen) THEN seen ELSE Append(seen, topic)
    /\ delivered' = [delivered EXCEPT ![topic] = value]
    /\ first_row' = IF first_row[topic] = 0 /\ o2 # <<>>
                    THEN [first_row EXCEPT ![topic] = o2[1].row]
                    ELSE first_row
    /\ screen' = Show(screen, o2, err = "io" \/ ubNow)
    /\ UNCHANGED << term, phase, others >>

\* The topic exists (getPtr returned entry i): free the old value, duplicate
\* the new one, redraw the value part.
UpdateExisting(i, topic, value, af, wf, R) ==
    LET info  == topics[i]
        dbl   == ~heap[info.value].live
        ubNow == dbl \/ Indet(heap, topics, topic) # {}
        h1    == Free(heap, info.value)
        refs  == Referenced(topics) \ { info.value }
    IN  IF af = "dupe_value" \/ DupeTargets(h1, refs) = {}
        THEN UpdateDone(topic, value, "existing", "OutOfMemory", "dupe_value", i,
                        topics, next_row, h1, <<>>, ubNow, FALSE)
        ELSE \E a \in DupeTargets(h1, refs) :
               LET h2   == Dupe(h1, a, value)
                   t2   == [topics EXCEPT ![i] = SetValue(info, a)]
                   cmds == RedrawTopicValue(h2, t2, topic, R)
               IN  IF Lookup(h2, t2, topic, R) = 0
                   THEN UpdateDone(topic, value, "existing", "panic", "get", i,
                                   t2, next_row, h2, <<>>, TRUE, TRUE)
                   ELSE IF IoFailed(cmds, wf)
                   THEN UpdateDone(topic, value, "existing", "io", "write", i,
                                   t2, next_row, h2, Written(cmds, wf), ubNow, FALSE)
                   ELSE UpdateDone(topic, value, "existing", "none", "", i,
                                   t2, next_row, h2, cmds, ubNow, FALSE)

\* The topic is new (getPtr returned null): duplicate topic and value, put
\* the entry, draw the full line, advance next_row.  The errdefers free the
\* copies on every error return after them.
UpdateNew(topic, value, af, wf, R) ==
    LET ubNow == Indet(heap, topics, topic) # {}
    IN  IF af = "dupe_key" \/ DupeTargets(heap, Referenced(topics)) = {}
        THEN UpdateDone(topic, value, "new", "OutOfMemory", "dupe_key", 0,
                        topics, next_row, heap, <<>>, ubNow, FALSE)
        ELSE \E ka \in DupeTargets(heap, Referenced(topics)) :
          LET h1 == Dupe(heap, ka, topic)
          IN  IF af = "dupe_value" \/ DupeTargets(h1, Referenced(topics)) = {}
              THEN UpdateDone(topic, value, "new", "OutOfMemory", "dupe_value", 0,
                              topics, next_row, ErrdeferKey(h1, ka), <<>>, ubNow, FALSE)
              ELSE \E va \in DupeTargets(h1, Referenced(topics)) :
                LET h2   == Dupe(h1, va, value)
                    j    == Lookup(h2, topics, topic, R)
                    t2   == Put(topics, j, NewTopicInfo(ka, topic, va, next_row))
                    k    == Lookup(h2, t2, topic, R)
                    cmds == DrawFullTopic(h2, t2, topic, R)
                    hErr == ErrdeferKey(ErrdeferValue(h2, va), ka)
                IN  IF j = 0 /\ af = "put"
                    THEN UpdateDone(topic, value, "new", "OutOfMemory", "put", 0,
                                    topics, next_row, hErr, <<>>, ubNow, FALSE)
                    ELSE IF IoFailed(cmds, wf)
                    THEN UpdateDone(topic, value, "new", "io", "write", k,
                                    t2, next_row, hErr, Written(cmds, wf), ubNow, FALSE)
                    ELSE UpdateDone(topic, value, "new", "none", "", k,
                                    t2, BumpRow(next_row), h2, cmds, ubNow, FALSE)

UpdateTopic(topic, value, af, wf) ==
    /\ phase = "running"
    /\ FaultAllowed(af, wf)
    /\ \E R \in SUBSET Indet(heap, topics, topic) :
         LET i == Lookup(heap, topics, topic, R)
         IN  IF i # 0
             THEN UpdateExisting(i, topic, value, af, wf, R)
             ELSE UpdateNew(topic, value, af, wf, R)

\* ------------------------------------------------------------ redrawAll

\* The orders in which the map's iterator may visit the entries S.
RECURSIVE Orders(_)
Orders(S) ==
    IF S = {} THEN { <<>> }
    ELSE UNION { { <<x>> \o o : o \in Orders(S \ {x}) } : x \in S }

\* Entries whose key cell is freed: the iterator hands their key to drawFullTopic.
DeadKeys(h, t) == { i \in DOMAIN t : ~h[t[i].key].live }

\* The drawFullTopic calls of redrawAll, visiting the entries in `order`:
\* the writes, and whether a call unwrapped a null lookup.  An entry whose
\* key cell is freed reads as its old key if it is in R, as garbage if not.
RECURSIVE DrawAll(_, _, _, _)
DrawAll(h, t, order, R) ==
    IF order = <<>> THEN [cmds |-> <<>>, crash |-> FALSE]
    ELSE LET i     == Head(order)
             topic == IF h[t[i].key].live THEN h[t[i].key].data ELSE t[i].hash
             found == (h[t[i].key].live \/ i \in R) /\ Lookup(h, t, topic, R) # 0
             rest  == DrawAll(h, t, Tail(order), R)
         IN  IF ~found THEN [cmds |-> <<>>, crash |-> TRUE]
             ELSE [cmds |-> DrawFullTopic(h, t, topic, R) \o rest.cmds, crash |-> rest.crash]

RedrawAll(order, wf) ==
    /\ phase = "running"
    /\ FaultAllowed("none", wf)
    /\ \E R \in SUBSET DeadKeys(heap, topics) :
         LET d     == DrawAll(heap, topics, order, R)
             cmds  == << ED >> \o d.cmds
             ubNow == DeadKeys(heap, topics) # {}
             crash == d.crash /\ ~IoFailed(cmds, wf)
             err   == IF IoFailed(cmds, wf) THEN "io" ELSE "none"
         IN  /\ wf <= Len(cmds)
             /\ \/ (crash \/ ubNow) /\ Killed(term)
                \/ /\ ~crash
                   /\ out' = Written(cmds, wf)
                   /\ screen' = Show(screen, Written(cmds, wf), err = "io" \/ ubNow)
                   /\ result' = Result("redraw", <<>>, <<>>, "", err,
                                       IF err = "io" THEN "write" ELSE "", 0)
                   /\ faults' = CountFault(err)
                   /\ ub' = (ub \/ ubNow)
                   /\ UNCHANGED << topics, next_row, heap, term, phase, seen, delivered,
                                   first_row, others >>

\* --------------------------------------------------- the session around it

\* Mutant of DeinitHeap: only the values are freed.
DeinitHeap_ValuesOnly(h, t) ==
    [a \in Addr |-> IF a \in { t[i].value : i \in DOMAIN t } THEN FreeCell ELSE h[a]]

\* deinit: free every entry's value and key, then the map.
DeinitHeap(h, t) == [a \in Addr |-> IF a \in Referenced(t) THEN FreeCell ELSE h[a]]

\* deinit frees a cell that is not allocated (any more): an entry points to a
\* freed cell, or two slices of the table are the same address.
DeinitDoubleFree(h, t) ==
    \/ \E i \in DOMAIN t : ~h[t[i].key].live \/ ~h[t[i].value].live \/ t[i].key = t[i].value
    \/ \E i, j \in DOMAIN t : i # j /\ {t[i].key, t[i].value} \cap {t[j].key, t[j].value} # {}

\* setupTerminal: alternate screen buffer, clear, hide cursor.
SetupCmds == << AltOn, ED, CurHide >>

\* Mutant of RestoreCmds: the cursor is not shown again.
RestoreCmds_NoShow == << AltOff >>

\* restoreTerminal: show cursor, back to the main buffer.
RestoreCmds == << CurShow, AltOff >>

\* `try display.setupTerminal()`: on success the restore is deferred; on an
\* error the session function returns it, running the deferred deinit only.
SetupTerminal(wf) ==
    /\ phase = "created"
    /\ FaultAllowed("none", wf)
    /\ wf <= Len(SetupCmds)
    /\ out' = Written(SetupCmds, wf)
    /\ term' = ApplyMode(term, Written(SetupCmds, wf))
    /\ screen' = Show(screen, Written(SetupCmds, wf), wf # 0)
    /\ result' = Result("setup", <<>>, <<>>, "", IF wf = 0 THEN "none" ELSE "io",
                        IF wf = 0 THEN "" ELSE "write", 0)
    /\ faults' = CountFault(IF wf = 0 THEN "none" ELSE "io")
    /\ IF wf = 0
       THEN /\ phase' = "running"
            /\ UNCHANGED << topics, heap, ub >>
       ELSE /\ phase' = "exited"
            /\ topics' = <<>>
            /\ heap' = DeinitHeap(heap, topics)
            /\ ub' = (ub \/ DeinitDoubleFree(heap, topics))
    /\ UNCHANGED << next_row, seen, delivered, first_row, others >>

\* The session function returns (normally or with the error of a call after
\* setupTerminal): the deferred restoreTerminal runs, its error is dropped
\* (`catch {}`), then the deferred deinit runs.
Exit(wf) ==
    /\ phase = "running"
    /\ FaultAllowed("none", wf)
    /\ wf <= Len(RestoreCmds)
    /\ \/ DeinitDoubleFree(heap, topics) /\ Killed(ApplyMode(term, Written(RestoreCmds, wf)))
       \/ /\ out' = Written(RestoreCmds, wf)
          /\ term' = ApplyMode(term, Written(RestoreCmds, wf))
          /\ screen' = Show(screen, Written(RestoreCmds, wf), wf # 0)
          /\ result' = Result("exit", <<>>, <<>>, "", "none",
                              IF wf = 0 THEN "" ELSE "write", 0)
          /\ faults' = CountFault(IF wf = 0 THEN "none" ELSE "io")
          /\ topics' = <<>>
          /\ heap' = DeinitHeap(heap, topics)
          /\ ub' = (ub \/ DeinitDoubleFree(heap, topics))
          /\ phase' = "exited"
          /\ UNCHANGED << next_row, seen, delivered, first_row, others >>

\* The process is killed by a signal.
Signal ==
    /\ phase \in { "created", "running" }
    /\ Killed(term)

\* ---------------------------------------------------------- specification

Next ==
    \/ \E topic \in Keys, value \in Values, af \in AllocFaults, wf \in 0 .. 3 :
         UpdateTopic(topic, value, af, wf)
    \/ \E order \in Orders(DOMAIN topics), wf \in 0 .. (1 + 3 * Len(topics)) :
         RedrawAll(order, wf)
    \/ \E wf \in 0 .. 3 : SetupTerminal(wf)
    \/ \E wf \in 0 .. 2 : Exit(wf)
    \/ Signal

Spec == Init /\ [][Next]_vars

\* Sessions in which no call fails, with the payloads of the example
\* scenarios among the values.
ScenarioValues == Values \cup { <<"1">> }

ScenarioNext ==
    \/ \E topic \in Keys, value \in ScenarioValues : UpdateTopic(topic, value, "none", 0)
    \/ \E order \in Orders(DOMAIN topics) : RedrawAll(order, 0)
    \/ SetupTerminal(0)
    \/ Exit(0)

Scenarios == Init /\ [][ScenarioNext]_vars

\* ------------------------------------------- callers of updateTopic

\* A single writer takes the updates from a queue and makes one call after
\* the other.
SerialWriter == [mode |-> "serial", thr |-> <<>>]

\* A caller that is about to call updateTopic(topic, .) on its own thread:
\* where it is in updateTopic (pc), its copies of the topic and the value
\* (ka, va), the row it read for the entry (row), the entry drawFullTopic
\* got (idx), how many writes of drawFullTopic it has made (n), and the
\* next_row it loaded for `next_row += 1` (loaded).
Caller(topic) ==
    [pc |-> "idle", topic |-> topic, value |-> <<>>, ka |-> 0, va |-> 0, row |-> 0,
     idx |-> 0, n |-> 0, loaded |-> 0]

\* Two callers with distinct topics the display has not seen, not serialised.
RacingCallers == [mode |-> "racing", thr |-> << Caller(<<"a", "/", "b">>), Caller(<<"°">>) >>]

Callers == DOMAIN RacingCallers.thr

WritersInit ==
    /\ DisplayInit
    /\ go = NoProgram
    /\ calls \in { SerialWriter, RacingCallers }

\* The single writer makes the next call, whatever update arrived next.
SerialUpdate ==
    /\ calls.mode = "serial"
    /\ \E topic \in Keys, value \in Values : UpdateTopic(topic, value, "none", 0)

\* Caller p is at pc of updateTopic.
At(p, pc) == calls.mode = "racing" /\ phase = "running" /\ calls.thr[p].pc = pc

Goes(p, c) == calls' = [calls EXCEPT !.thr[p] = c]

\* updateTopic(topic, value) is called.
CallUpdate(p, value) ==
    /\ At(p, "idle")
    /\ Goes(p, [calls.thr[p] EXCEPT !.pc = "getPtr", !.value = value])
    /\ UNCHANGED << display, go >>

\* self.topics.getPtr(topic) returns null: the topic is new.
GetPtr(p) ==
    /\ At(p, "getPtr")
    /\ Lookup(heap, topics, calls.thr[p].topic, {}) = 0
    /\ Goes(p, [calls.thr[p] EXCEPT !.pc = "dupe_key"])
    /\ UNCHANGED << display, go >>

\* const topic_duped = try self.allocator.dupe(u8, topic)
DupeKey(p) ==
    /\ At(p, "dupe_key")
    /\ \E a \in DupeTargets(heap, Referenced(topics)) :
         /\ heap' = Dupe(heap, a, calls.thr[p].topic)
         /\ Goes(p, [calls.thr[p] EXCEPT !.pc = "dupe_value", !.ka = a])
    /\ UNCHANGED << topics, next_row, term, out, phase, result, faults, ub, seen,
                    delivered, first_row, screen, go >>

\* const value_duped = try self.allocator.dupe(u8, value)
DupeValue(p) ==
    /\ At(p, "dupe_value")
    /\ \E a \in DupeTargets(heap, Referenced(topics)) :
         /\ heap' = Dupe(heap, a, calls.thr[p].value)
         /\ Goes(p, [calls.thr[p] EXCEPT !.pc = "put_args", !.va = a])
    /\ UNCHANGED << topics, next_row, term, out, phase, result, faults, ub, seen,
                    delivered, first_row, screen, go >>

\* The TopicInfo passed to put is built: .row = self.next_row is read.
PutArgs(p) ==
    /\ At(p, "put_args")
    /\ Goes(p, [calls.thr[p] EXCEPT !.pc = "put", !.row = next_row])
    /\ UNCHANGED << display, go >>

\* What a topics.put can come to: the entry is stored; or, when the other
\* caller is in topics.put as well, the two calls write the map's memory
\* at once (a data race), and the entry may also be lost or the process
\* killed.
PutOutcomes(p) ==
    IF \E q \in Callers : q # p /\ calls.thr[q].pc = "put"
    THEN { "stored", "lost", "killed" }
    ELSE { "stored" }

\* try self.topics.put(topic_duped, TopicInfo{...})
PutEntry(p, outcome) ==
    LET c == calls.thr[p]
    IN  /\ At(p, "put")
        /\ outcome \in PutOutcomes(p)
        /\ IF outcome = "killed" THEN Killed(term)
           ELSE /\ topics' = IF outcome = "lost" THEN topics
                              ELSE Put(topics, Lookup(heap, topics, c.topic, {}),
                                       NewTopicInfo(c.ka, c.topic, c.va, c.row))
                /\ ub' = (ub \/ outcome = "lost")
                /\ seen' = Append(seen, c.topic)
                /\ delivered' = [delivered EXCEPT ![c.topic] = c.value]
                /\ Goes(p, [c EXCEPT !.pc = "draw_get"])
                /\ UNCHANGED << next_row, heap, term, out, phase, result, faults,
                                first_row, screen, go >>

\* drawFullTopic: const info = self.topics.get(topic).?  The unwrap of a
\* null kills the process.
DrawGet(p) ==
    LET c == calls.thr[p]
        i == Lookup(heap, topics, c.topic, {})
    IN  /\ At(p, "draw_get")
        /\ IF i = 0 THEN Killed(term)
           ELSE /\ Goes(p, [c EXCEPT !.pc = "draw", !.idx = i])
                /\ UNCHANGED << display, go >>

\* drawFullTopic: the next of its three writes.
DrawWrite(p) ==
    LET c   == calls.thr[p]
        cmd == DrawFullTopic(heap, topics, c.topic, {})[c.n + 1]
    IN  /\ At(p, "draw")
        /\ out' = Append(out, cmd)
        /\ screen' = Show(screen, << cmd >>, FALSE)
        /\ first_row' = IF c.n = 0 THEN [first_row EXCEPT ![c.topic] = cmd.row] ELSE first_row
        /\ Goes(p, [c EXCEPT !.n = @ + 1, !.pc = IF c.n = 2 THEN "bump_load" ELSE "draw"])
        /\ UNCHANGED << topics, next_row, heap, term, phase, result, faults, ub, seen,
                        delivered, go >>

\* self.next_row += 1: next_row is loaded,
BumpLoad(p) ==
    /\ At(p, "bump_load")
    /\ Goes(p, [calls.thr[p] EXCEPT !.pc = "bump_store", !.loaded = next_row])
    /\ UNCHANGED << display, go >>

\* and the sum is stored; updateTopic returns.
BumpStore(p) ==
    LET c == calls.thr[p]
    IN  /\ At(p, "bump_store")
        /\ next_row' = BumpRow(c.loaded)
        /\ result' = Result("update", c.topic, c.value, "new", "none", "", c.idx)
        /\ Goes(p, [c EXCEPT !.pc = "done"])
        /\ UNCHANGED << topics, heap, term, out, phase, faults, ub, seen, delivered,
                        first_row, screen, go >>

WritersNext ==
    \/ SetupTerminal(0)
    \/ SerialUpdate
    \/ \E p \in Callers, value \in Values : CallUpdate(p, value)
    \/ \E p \in Callers : GetPtr(p)
    \/ \E p \in Callers : DupeKey(p)
    \/ \E p \in Callers : DupeValue(p)
    \/ \E p \in Callers : PutArgs(p)
    \/ \E p \in Callers, outcome \in { "stored", "lost", "killed" } : PutEntry(p, outcome)
    \/ \E p \in Callers : DrawGet(p)
    \/ \E p \in Callers : DrawWrite(p)
    \/ \E p \in Callers : BumpLoad(p)
    \/ \E p \in Callers : BumpStore(p)

Writers == WritersInit /\ [][WritersNext]_vars

\* ------------------------------------------------------ the myg command

\* Longest command line, the program's path not counted.
MaxArgs == 3

\* Connection events delivered to the client in one run.
MaxConnEvents == 2

\* What an argument of the command line can be: the two options, a host
\* name, a port number, a topic.
ArgTokens == { <<"-", "a">>, <<"-", "p">>, <<"h">>, <<"7">>, <<"t">> }

ArgLists == UNION { [1 .. n -> ArgTokens] : n \in 0 .. MaxArgs }

Digits == << "0", "1", "2", "3", "4", "5", "6", "7", "8", "9" >>

\* strconv's reading of a decimal string: whether it is a number, and which.
IsNumber(s) == s # <<>> /\ \A i \in DOMAIN s : \E d \in DOMAIN Digits : Digits[d] = s[i]

RECURSIVE NumberOf(_)
NumberOf(s) ==
    IF s = <<>> THEN 0
    ELSE 10 * NumberOf(SubSeq(s, 1, Len(s) - 1))
         + (CHOOSE d \in DOMAIN Digits : Digits[d] = s[Len(s)]) - 1

\* strconv.Itoa
RECURSIVE Itoa(_)
Itoa(n) == IF n < 10 THEN << Digits[n + 1] >> ELSE Itoa(n \div 10) \o << Digits[(n % 10) + 1] >>

\* flag.String("a", "localhost", ...) and flag.Int("p", 1883, ...)
DefaultAddress == << "l", "o", "c", "a", "l", "h", "o", "s", "t" >>

DefaultPort == 1883

Parsed(err, a, p, rest) == [err |-> err, address |-> a, port |-> p, rest |-> rest]

\* flag.Parse over the arguments args, with the values a and p the flags
\* have so far: an argument "-a" or "-p" takes the next argument as its
\* value; the first argument that is no flag ends the options, and it and
\* what follows are flag.Args(); a flag that is not defined, a flag without
\* its value and a port that is no number are errors.
RECURSIVE FlagParse(_, _, _)
FlagParse(args, a, p) ==
    IF args = <<>> THEN Parsed(FALSE, a, p, <<>>)
    ELSE LET s == Head(args)
         IN  IF Len(s) < 2 \/ s[1] # "-" THEN Parsed(FALSE, a, p, args)
             ELSE IF Tail(s) \notin { <<"a">>, <<"p">> } THEN Parsed(TRUE, a, p, <<>>)
             ELSE IF Len(args) < 2 THEN Parsed(TRUE, a, p, <<>>)
             ELSE IF Tail(s) = <<"a">>
                  THEN FlagParse(SubSeq(args, 3, Len(args)), args[2], p)
             ELSE IF ~IsNumber(args[2]) THEN Parsed(TRUE, a, p, <<>>)
             ELSE FlagParse(SubSeq(args, 3, Len(args)), a, NumberOf(args[2]))

\* os.Args: the program's path, then the arguments.
OsArgs(argv) == << <<"m", "y", "g">> >> \o argv

\* libmqtt.CodeSuccess, and a code a server refuses a connection with.
CodeSuccess == 0

ConnCodes == { CodeSuccess, 4 }

\* &libmqtt.Topic{Name: topic, Qos: libmqtt.Qos0}
MqttTopic(name) == [Name |-> name, Qos |-> 0]

\* The command as started with the arguments argv: the flags' variables
\* (flag_a, flag_p), the globals of mqtt.go (address, port, topics), what
\* the process printed and exited with, and the client: the connection
\* events delivered (events) and the last of them (last), those that were
\* successful (accepted), the goroutines started and not yet run
\* (pending), the Subscribe calls made (subs).
GoStart(argv) ==
    [pc |-> "main", argv |-> argv, flag_a |-> DefaultAddress, flag_p |-> DefaultPort,
     rest |-> <<>>, address |-> DefaultAddress, port |-> DefaultPort, topics |-> <<>>,
     usage |-> FALSE, status |-> 0, server |-> <<>>,
     events |-> 0, last |-> [err |-> FALSE, code |-> CodeSuccess],
     accepted |-> 0, pending |-> 0, subs |-> <<>>]

GoInit ==
    /\ DisplayInit
    /\ calls = NoCalls
    /\ \E argv \in ArgLists : go = GoStart(argv)

\* flag.Parse(): on an error the flag package prints the usage and exits
\* with status 2.
FlagParseCall ==
    /\ go.pc = "main"
    /\ LET r == FlagParse(go.argv, go.flag_a, go.flag_p)
       IN  go' = IF r.err
                 THEN [go EXCEPT !.pc = "exited", !.usage = TRUE, !.status = 2]
                 ELSE [go EXCEPT !.pc = "check", !.flag_a = r.address, !.flag_p = r.port,
                                 !.rest = r.rest]
    /\ UNCHANGED << display, calls >>

\* if len(os.Args) < 2 { ...; commandeUsage(); os.Exit(1) }
CheckArgs ==
    /\ go.pc = "check"
    /\ go' = IF Len(OsArgs(go.argv)) < 2
             THEN [go EXCEPT !.pc = "exited", !.usage = TRUE, !.status = 1]
             ELSE [go EXCEPT !.pc = "setSubTopics"]
    /\ UNCHANGED << display, calls >>

\* setSubTopics(os.Args[1:])
SetSubTopics ==
    /\ go.pc = "setSubTopics"
    /\ LET topicArr == Tail(OsArgs(go.argv))
       IN  go' = [go EXCEPT !.pc = "setMQTTConParam",
                            !.topics = @ \o [i \in DOMAIN topicArr |-> MqttTopic(topicArr[i])]]
    /\ UNCHANGED << display, calls >>

\* setMQTTConParam(*address, *port)
SetMQTTConParam ==
    /\ go.pc = "setMQTTConParam"
    /\ go' = [go EXCEPT !.pc = "startMQTTClient", !.address = go.flag_a, !.port = go.flag_p]
    /\ UNCHANGED << display, calls >>

\* startMQTTClient: the client is made and connects to address:port, and
\* main waits in client.Wait().
StartMQTTClient ==
    /\ go.pc = "startMQTTClient"
    /\ go' = [go EXCEPT !.pc = "wait", !.server = go.address \o <<":">> \o Itoa(go.port)]
    /\ UNCHANGED << display, calls >>

\* Mutant of ShouldSubscribe: the server's code is not looked at.
ShouldSubscribe_AnyCode(err, code) == ~err

\* connHandler goes on to subscribe: neither of its two early returns is taken.
ShouldSubscribe(err, code) == ~err /\ code = CodeSuccess

\* The client calls connHandler for a connection attempt that ended with
\* err and the server's code: it logs and returns, or starts the goroutine
\* that subscribes.
ConnHandler(err, code) ==
    /\ go.pc = "wait"
    /\ go.events < MaxConnEvents
    /\ go' = IF ShouldSubscribe(err, code)
             THEN [go EXCEPT !.events = @ + 1, !.last = [err |-> err, code |-> code],
                             !.accepted = @ + 1, !.pending = @ + 1]
             ELSE [go EXCEPT !.events = @ + 1, !.last = [err |-> err, code |-> code]]
    /\ UNCHANGED << display, calls >>

\* A goroutine started by connHandler runs: client.Subscribe(topics...)
SubscribeCall ==
    /\ go.pc = "wait"
    /\ go.pending > 0
    /\ go' = [go EXCEPT !.pending = @ - 1, !.subs = Append(@, go.topics)]
    /\ UNCHANGED << display, calls >>

GoNext ==
    \/ FlagParseCall
    \/ CheckArgs
    \/ SetSubTopics
    \/ SetMQTTConParam
    \/ StartMQTTClient
    \/ \E err \in BOOLEAN, code \in ConnCodes : ConnHandler(err, code)
    \/ SubscribeCall

GoSpec == GoInit /\ [][GoNext]_vars

\* The Go scheduler runs a goroutine that is ready: main waits in
\* client.Wait() and does not end the process before it.
GoLive == GoInit /\ [][GoNext]_vars /\ WF_vars(SubscribeCall)

\* ------------------------------------------------------------ properties

\* No call has returned an error so far.
Clean == faults = 0

\* Between init and the end of the session.
Alive == phase \in { "created", "running" }

Rows(t) == { t[i].row : i \in DOMAIN t }

\* The topic of the line whose cursor move is the n-th write of o.
LineKey(o, n) == SubSeq(o[n + 1].s, 1, Len(o[n + 1].s) - 2)

\* C1: in every state between init and teardown, also after a call that
\* returned an error, no two distinct keys of the table have the same row.
RowUniqueness ==
    Alive => \A i, j \in DOMAIN topics :
               topics[i].hash # topics[j].hash => topics[i].row # topics[j].row

\* C2: in every state between init and teardown, also after a call that
\* returned an error, next_row is the largest row of the table plus one, or
\* 1 when the table is empty.
NextRowIsMaxRowPlusOne ==
    Alive => next_row = (IF topics = <<>> THEN 1 ELSE Max(Rows(topics)) + 1)

\* C3: while every call has returned successfully, the N-th distinct key
\* passed to updateTopic is in the table at row N: rows follow first-seen
\* order from 1, without gaps or reuse.
MonotonicRowAssignment ==
    (Alive /\ Clean) =>
        /\ TopicCount(topics) = Len(seen)
        /\ \A n \in DOMAIN seen :
             \E i \in DOMAIN topics : topics[i].hash = seen[n] /\ topics[i].row = n

MonotonicRowAssignment_Witness ==
    /\ Alive /\ Clean
    /\ Len(seen) = 2
    /\ result.op = "update" /\ result.path = "new" /\ result.err = "none"
    /\ topics[result.idx].row = 2

\* Every cursor move of the last updateTopic or redrawAll call goes to the
\* row the line of its key was first drawn at.
CursorAtFirstRow ==
    /\ result.op = "update" =>
         \A n \in DOMAIN out : out[n].t = "CUP" => out[n].row = first_row[result.key]
    /\ result.op = "redraw" =>
         \A n \in DOMAIN out : out[n].t = "CUP" => out[n].row = first_row[LineKey(out, n)]

\* C4: no call before the teardown changes the row of an entry; and while
\* every call has returned successfully, each entry's row is the row its
\* line was first drawn at, and every cursor move of an updateTopic or
\* redrawAll call for a key goes to that row.
RowStability ==
    /\ [][ (Alive /\ Alive') =>
             \A i \in DOMAIN topics :
                i \in DOMAIN topics' /\ topics'[i].row = topics[i].row ]_vars
    /\ []((Alive /\ Clean) =>
             /\ \A i \in DOMAIN topics : topics[i].row = first_row[topics[i].hash]
             /\ CursorAtFirstRow)

RowStability_Witness ==
    /\ Alive /\ Clean
    /\ result.op = "update" /\ result.path = "existing"
    /\ out # <<>> /\ out[1] = CUP(2, ValueColumn(result.key))
    /\ first_row[result.key] = 2

\* C5: right after updateTopic(k, v) returned successfully the value stored
\* for k is v; and while every call has returned successfully, the stored
\* value of each key, and the value a redrawAll writes on its line, is the
\* value of the last updateTopic call for that key.
ValueFreshness ==
    Alive =>
        /\ (result.op = "update" /\ result.err = "none") =>
              /\ result.idx \in DOMAIN topics
              /\ topics[result.idx].hash = result.key
              /\ heap[topics[result.idx].value].live
              /\ heap[topics[result.idx].value].data = result.value
        /\ Clean =>
              /\ \A i \in DOMAIN topics :
                    ReadVal(heap, topics[i].value) = delivered[topics[i].hash]
              /\ result.op = "redraw" =>
                    \A n \in DOMAIN out :
                       out[n].t = "CUP" => out[n + 2].s = delivered[LineKey(out, n)]

ValueFreshness_Witness ==
    /\ Alive /\ Clean
    /\ result.op = "redraw"
    /\ \E i \in DOMAIN topics :
         /\ delivered[topics[i].hash] = <<>>
         /\ first_row[topics[i].hash] = 1
         /\ \E n \in DOMAIN out : out[n] = CUP(1, 1) /\ out[n + 2] = Text(<<>>)
    /\ TopicCount(topics) = 2

\* C6: while every call has returned successfully, topicCount() is the
\* number of distinct keys passed to updateTopic; a successful update of a
\* new key raises it by one, an update of an existing key leaves it, and no
\* call before the teardown lowers it.
CountCorrectness ==
    /\ []((Alive /\ Clean) => TopicCount(topics) = Cardinality(Range(seen)))
    /\ [][ (Alive /\ Alive') =>
             /\ TopicCount(topics') >= TopicCount(topics)
             /\ (result'.op = "update" /\ result'.path = "new" /\ result'.err = "none")
                   => TopicCount(topics') = TopicCount(topics) + 1
             /\ (result'.op = "update" /\ result'.path = "existing")
                   => TopicCount(topics') = TopicCount(topics) ]_vars

CountCorrectness_Witness ==
    /\ Alive /\ Clean
    /\ TopicCount(topics) = 2
    /\ result.op = "update" /\ result.path = "existing"

\* C7: between init and teardown every entry's value_column is the length
\* of its key (topic.len, in bytes) plus 3, and no call changes the value_column or the key of an
\* entry, whatever values are written.
ColumnStability ==
    /\ [](Alive => \A i \in DOMAIN topics :
                      topics[i].value_column = ByteLen(topics[i].hash) + 3)
    /\ [][ (Alive /\ Alive') =>
             \A i \in DOMAIN topics :
                /\ i \in DOMAIN topics'
                /\ topics'[i].value_column = topics[i].value_column
                /\ topics'[i].hash = topics[i].hash ]_vars

ColumnStability_Witness ==
    /\ Alive
    /\ result.op = "update" /\ result.path = "existing" /\ result.err = "none"
    /\ Len(result.value) > Len(result.key)
    /\ out[1] = CUP(topics[result.idx].row, ByteLen(result.key) + 3)

\* C8: an updateTopic call of a new key whose value copy fails returns
\* OutOfMemory and leaves the table, topicCount(), next_row and the set of
\* allocated cells as they were: the key copy is freed and no entry for the
\* key is in the table.
ValueDupeFailureIsClean ==
    [][ (result'.op = "update" /\ result'.path = "new" /\ result'.at = "dupe_value") =>
          /\ result'.err = "OutOfMemory"
          /\ topics' = topics
          /\ TopicCount(topics') = TopicCount(topics)
          /\ next_row' = next_row
          /\ LiveCells(heap') = LiveCells(heap)
          /\ Lookup(heap', topics', result'.key, {}) = 0 ]_vars

ValueDupeFailureIsClean_Witness ==
    /\ result.op = "update" /\ result.path = "new" /\ result.at = "dupe_value"
    /\ result.err = "OutOfMemory"
    /\ TopicCount(topics) = 1
    /\ next_row = 2

\* C9: after deinit, whatever calls succeeded or failed before it, no cell
\* the engine allocated is still allocated.
CleanupOnTeardown == phase = "exited" => LiveCells(heap) = {}

CleanupOnTeardown_Witness ==
    /\ phase = "exited"
    /\ result.op = "exit"
    /\ Len(seen) = 2
    /\ faults > 0

\* C10: a session that ended, by a return or by being killed, has left the
\* terminal in the main buffer with the cursor shown.
TerminalReleasedAtEnd ==
    phase \in { "exited", "aborted" } => (~term.alt /\ ~term.hidden)

\* The character the screen shows at row r, column c.
CellAt(sc, r, c) == IF c <= Len(sc.cells[r]) THEN sc.cells[r][c] ELSE " "

\* The call that just returned was a successful updateTopic of a topic
\* that was in the table.
UpdatedExisting == result.op = "update" /\ result.path = "existing" /\ result.err = "none"

\* C11: a successful updateTopic of a topic already in the table writes
\* exactly a cursor move to the entry's (row, value_column), a clear to end
\* of line and the new value, in this order; no write is the topic's text,
\* and on the screen every other row, and the entry's row left of
\* value_column, stay as they were.
PartialRedrawOnly ==
    [][ UpdatedExisting' =>
          /\ result'.idx \in DOMAIN topics
          /\ topics[result'.idx].hash = result'.key
          /\ LET e == topics[result'.idx]
             IN  /\ out' = << CUP(e.row, e.value_column), EL, Text(result'.value) >>
                 /\ \A n \in DOMAIN out' : out'[n].s # result'.key \o <<":", " ">>
                 /\ (screen.known /\ screen'.known) =>
                       \A r \in 1 .. ScreenRows :
                          /\ r # e.row => screen'.cells[r] = screen.cells[r]
                          /\ \A c \in 1 .. (e.value_column - 1) :
                                CellAt(screen', r, c) = CellAt(screen, r, c) ]_vars

PartialRedrawOnly_Witness ==
    /\ UpdatedExisting
    /\ out = << CUP(2, 5), EL, Text(<<"2", "2">>) >>
    /\ screen.known
    /\ screen.cells[1] = <<"a", "/", "b", ":">>
    /\ screen.cells[2] = <<"°", ":", " ", " ", "2", "2">>

\* The full line of entry e: "<key>: <value>".
FullLine(h, e) == Trim(e.hash \o <<":", " ">> \o ReadVal(h, e.value))

\* The screen that shows the full line of every entry of the table on the
\* entry's row and nothing else.
Painted(h, t) ==
    [r \in 1 .. ScreenRows |->
        IF \E i \in DOMAIN t : t[i].row = r
        THEN FullLine(h, t[CHOOSE i \in DOMAIN t : t[i].row = r])
        ELSE <<>>]

\* The writes o are a screen clear followed by one full-line draw for every
\* entry of the table, in some order.
ClearThenEveryLine(o, h, t) ==
    /\ Len(o) = 1 + 3 * Len(t)
    /\ o[1] = ED
    /\ \E f \in [DOMAIN t -> DOMAIN t] :
         /\ \A i, j \in DOMAIN t : f[i] = f[j] => i = j
         /\ \A k \in DOMAIN t :
              /\ o[3 * k - 1] = CUP(t[f[k]].row, 1)
              /\ o[3 * k] = Text(t[f[k]].hash \o <<":", " ">>)
              /\ o[3 * k + 1] = Text(ReadVal(h, t[f[k]].value))

\* C12: while every call has returned successfully, a redrawAll writes a
\* screen clear and then one full-line draw (cursor to the entry's row,
\* column 1, the key and ": ", the value) for every entry; whatever order
\* the iterator visits the entries in, the screen then shows every
\* entry's line on the row it was first drawn at and nothing else; the
\* table and next_row are unchanged.
RedrawAllRepaints ==
    [][ (Clean /\ result'.op = "redraw" /\ result'.err = "none") =>
          /\ ClearThenEveryLine(out', heap, topics)
          /\ screen'.known
          /\ screen'.cells = Painted(heap, topics)
          /\ \A i \in DOMAIN topics :
                /\ topics[i].row = first_row[topics[i].hash]
                /\ screen'.cells[topics[i].row] = FullLine(heap, topics[i])
          /\ topics' = topics
          /\ next_row' = next_row ]_vars

RedrawAllRepaints_Witness ==
    /\ Clean /\ result.op = "redraw" /\ result.err = "none"
    /\ Len(topics) = 2
    /\ out[2] = CUP(2, 1) /\ out[5] = CUP(1, 1)
    /\ screen.cells[1] = <<"°", ":", " ", "2", "2">>
    /\ screen.cells[2] = <<"a", "/", "b", ":">>

\* The terminal mode the session starts in: main buffer, cursor shown.
InitialMode == [alt |-> FALSE, hidden |-> FALSE]

\* C13: a successful setupTerminal writes enter-alternate-buffer, clear
\* screen, hide cursor, in this order; a successful teardown writes show
\* cursor, leave-alternate-buffer, in this order, and leaves the terminal
\* in the mode the session started in; no updateTopic and no redrawAll,
\* successful or not, changes the terminal mode.
TerminalRoundTrip ==
    [][ /\ (result'.op = "setup" /\ result'.err = "none") =>
              /\ term = InitialMode
              /\ out' = << AltOn, ED, CurHide >>
              /\ term' = [alt |-> TRUE, hidden |-> TRUE]
        /\ (result'.op = "exit" /\ result'.at = "") =>
              /\ out' = << CurShow, AltOff >>
              /\ term' = InitialMode
        /\ result'.op \in { "update", "redraw" } => term' = term ]_vars

TerminalRoundTrip_Witness ==
    /\ phase = "exited"
    /\ result.op = "exit" /\ result.at = ""
    /\ out = << CurShow, AltOff >>
    /\ term = InitialMode
    /\ Len(seen) = 2

\* The first call of a session was updateTopic("a/b", "1"), and it has just
\* returned.
AfterScenarioOne ==
    /\ result.op = "update" /\ result.err = "none"
    /\ result.key = <<"a", "/", "b">> /\ result.value = <<"1">>
    /\ seen = << <<"a", "/", "b">> >>
    /\ result.path = "new"

\* C14 as stated: after updateTopic("a/b", "1") on a new display the entry
\* is at row 1 with value column 5 and topicCount() is 1.
ScenarioOneColumnFive ==
    AfterScenarioOne =>
        /\ topics[result.idx].row = 1
        /\ topics[result.idx].value_column = 5
        /\ TopicCount(topics) = 1

\* C14, amended: after updateTopic("a/b", "1") on a new display the entry
\* is at row 1 with value column 6, the length of "a/b" plus 3, and
\* topicCount() is 1.
ScenarioOneColumnSix ==
    AfterScenarioOne =>
        /\ topics[result.idx].row = 1
        /\ topics[result.idx].value_column = 6
        /\ TopicCount(topics) = 1

ScenarioOneColumnSix_Witness ==
    /\ AfterScenarioOne
    /\ out = << CUP(1, 1), Text(<<"a", "/", "b", ":", " ">>), Text(<<"1">>) >>
    /\ screen.cells[1] = <<"a", "/", "b", ":", " ", "1">>
    /\ next_row = 2

\* The names of the topics registered for subscription.
TopicNames(ts) == [i \in DOMAIN ts |-> ts[i].Name]

\* C15: the topics registered for subscription are exactly the TOPICS
\* arguments, those that follow the options -a and -p and their values;
\* the client is started only when there is at least one of them, and a
\* command line without a topic ends with the usage and exit status 1.
TopicsAreTheTopicArguments ==
    /\ go.pc \in { "setMQTTConParam", "startMQTTClient", "wait" } =>
          TopicNames(go.topics) = go.rest
    /\ go.pc = "wait" => go.rest # <<>>
    /\ (go.pc \notin { "none", "main" } /\ go.status # 2 /\ go.rest = <<>>) =>
          go.pc \in { "check", "exited" }
    /\ (go.pc = "exited" /\ go.status # 2) => (go.status = 1 /\ go.usage)

\* C16: in every state between init and teardown, also after an
\* updateTopic call returned an error, every key and every value the table
\* holds is a cell that is still allocated, so that deinit frees no cell
\* twice.
NoDanglingStorage ==
    Alive =>
        /\ \A i \in DOMAIN topics : heap[topics[i].key].live /\ heap[topics[i].value].live
        /\ ~DeinitDoubleFree(heap, topics)

\* The cells of the screen after a redrawAll that visits the table in order.
Repainted(order) ==
    Render(screen, << ED >> \o DrawAll(heap, topics, order, {}).cmds).cells

\* C17: while every call has returned successfully, the screen the
\* updateTopic calls have drawn is the screen a redrawAll would draw from
\* the table now, in whatever order: the row of every entry shows exactly
\* "<key>: <value>" with the value of the last call for the key and
\* nothing after it, and every other row is blank.
IncrementalEqualsRepaint ==
    (Alive /\ Clean) =>
        /\ screen.known
        /\ \A order \in Orders(DOMAIN topics) : screen.cells = Repainted(order)
        /\ \A i \in DOMAIN topics :
              screen.cells[topics[i].row] =
                 Trim(topics[i].hash \o <<":", " ">> \o delivered[topics[i].hash])
        /\ \A r \in 1 .. ScreenRows : r \notin Rows(topics) => screen.cells[r] = <<>>

\* The keys of the table.
KeySet(t) == { t[i].hash : i \in DOMAIN t }

\* C18: a successful updateTopic(k, v) of a topic k already in the table
\* changes, of the table and next_row, only the value stored for k: the
\* set of keys, topicCount(), next_row, the row and value_column of k, and
\* the row, value_column and value of every other entry are as before.
ExistingUpdateFrame ==
    [][ UpdatedExisting' =>
          /\ KeySet(topics') = KeySet(topics)
          /\ TopicCount(topics') = TopicCount(topics)
          /\ next_row' = next_row
          /\ DOMAIN topics' = DOMAIN topics
          /\ \A i \in DOMAIN topics :
                /\ topics'[i].hash = topics[i].hash
                /\ topics'[i].key = topics[i].key
                /\ topics'[i].row = topics[i].row
                /\ topics'[i].value_column = topics[i].value_column
                /\ i # result'.idx =>
                      /\ topics'[i].value = topics[i].value
                      /\ ReadVal(heap', topics'[i].value) = ReadVal(heap, topics[i].value)
          /\ ReadVal(heap', topics'[result'.idx].value) = result'.value ]_vars

ExistingUpdateFrame_Witness ==
    /\ UpdatedExisting
    /\ TopicCount(topics) = 2
    /\ result.value = <<>>
    /\ \E i \in DOMAIN topics :
         i # result.idx /\ ReadVal(heap, topics[i].value) = <<"2", "2">>
    /\ next_row = 3

\* C19: with the updateTopic calls made one after the other by a single
\* writer, in whatever order the updates arrive, no two entries share a
\* row (I1), next_row is the largest row plus one, 1 for the empty table
\* (I2), every entry's value_column is what it was created with (I3), and
\* every entry's value is that of the last call for its key (I4).
SerialisedCallsKeepInvariants ==
    (calls.mode = "serial" /\ Alive) =>
        /\ \A i, j \in DOMAIN topics : i # j => topics[i].row # topics[j].row
        /\ next_row = (IF topics = <<>> THEN 1 ELSE Max(Rows(topics)) + 1)
        /\ \A i \in DOMAIN topics : topics[i].value_column = ValueColumn(topics[i].hash)
        /\ \A i \in DOMAIN topics :
              /\ heap[topics[i].value].live
              /\ heap[topics[i].value].data = delivered[topics[i].hash]
        /\ KeySet(topics) = Range(seen)

\* C19, the other half: two calls for distinct new topics that are not
\* serialised have both returned, the two topics are on the same row and
\* next_row is not the largest row plus one.
SerialisedCallsKeepInvariants_Witness ==
    /\ calls.mode = "racing"
    /\ \A p \in Callers : calls.thr[p].pc = "done"
    /\ ~ub
    /\ Len(topics) = 2
    /\ topics[1].hash # topics[2].hash
    /\ topics[1].row = topics[2].row
    /\ next_row # Max(Rows(topics)) + 1

\* The last connection event reported no error and the code of success.
LastEventSucceeded == ~go.last.err /\ go.last.code = CodeSuccess

\* C20: connHandler starts a subscription for a connection event, the
\* first or a later one, exactly when the event reports no error and the
\* server's code is success, and a failed event starts and issues none;
\* every Subscribe call is for the whole list of registered topics, and
\* every successful event is eventually followed by its Subscribe call.
SubscriptionFollowsConnection ==
    /\ [][ (go.pc = "wait" /\ go'.events = go.events + 1) =>
             /\ go'.subs = go.subs
             /\ LastEventSucceeded' => go'.pending = go.pending + 1
             /\ ~LastEventSucceeded' => go'.pending = go.pending ]_vars
    /\ [](go.pc = "wait" =>
             /\ \A n \in DOMAIN go.subs : go.subs[n] = go.topics
             /\ Len(go.subs) + go.pending <= go.events)
    /\ \A n \in 1 .. MaxConnEvents :
          (go.pc = "wait" /\ go.accepted >= n) ~> (Len(go.subs) >= n)

SubscriptionFollowsConnection_Witness ==
    /\ go.pc = "wait"
    /\ go.events = 2 /\ go.accepted = 2
    /\ go.pending = 0
    /\ Len(go.topics) = 2
    /\ go.subs = << go.topics, go.topics >>

====
